---- MODULE Spec2Model ----
(***************************************************************************)
(* The meio actor runtime: spawn, the runtime task's entrypoint and its    *)
(* select_biased! loop (meio/src/actor_runtime.rs), the lifecycle messages *)
(* (meio/src/lifecycle.rs), and the supervision protocol between a root    *)
(* actor P and the child actors it binds.                                  *)
(*                                                                         *)
(* Address, Controller/Operator (channel) and Terminator are used by the   *)
(* runtime but their source is not part of the tree; they are modelled     *)
(* from the specification's sections 3, 4.2, 4.3 and 4.5.                  *)
(*                                                                         *)
(* Spec is the runtime with a root and the children it binds.  LiveSpec,   *)
(* LoadSpec and FaultSpec run the same loop under flooding senders, under  *)
(* racing act and interrupt calls, and with failing handlers; WaitSpec     *)
(* adds wait_or_interrrupt (meio/src/system.rs) and BeatSpec the HeartBeat *)
(* task (meio/src/task.rs).                                                *)
(***************************************************************************)
EXTENDS Naturals, Sequences, FiniteSets, TLC

\* Number of operations the holders of the root's Address perform.
MaxSends == 3

\* const MESSAGES_CHANNEL_DEPTH: usize = 32;
MESSAGES_CHANNEL_DEPTH == 32

Root == "P"
Children == {"C1", "C2"}
Actors == {Root} \cup Children

\* Option::None (no supervisor, no child id in a signal).
None == "None"

VARIABLES
    pc,             \* position of each runtime task in spawn / entrypoint
    hp,             \* hp_msg_rx: the unbounded high-priority mailbox
    lp,             \* msg_rx: the bounded normal-priority mailbox
    opq,            \* the operator's queue of signals: "Stop" or a child's id
    msgRxClosed,    \* msg_rx.close() has been called
    children,       \* Terminator: the live children
    stopRequested,  \* Terminator: a stop signal has been received
    opState,        \* Operator: "created", "initialized", "finalized"
    sup,            \* opt_supervisor given to spawn
    current,        \* envelopes whose handler is in progress
    handled,        \* envelopes dispatched to the handlers, in order
    ext,            \* an Address is held outside the runtime
    sent,           \* operations performed through the external Address
    rejected,       \* kinds of send the mailboxes have refused with an error
    lastResult,     \* result of the handler that returned last, when recorded
    recording,      \* what a specification records: "handled", "results",
                    \* "behind"; fixed by its initial state
    waiter,         \* wait_or_interrrupt: its locals and position
    beat            \* HeartBeat::routine: its locals and position

vars == <<pc, hp, lp, opq, msgRxClosed, children, stopRequested, opState, sup,
          current, handled, ext, sent, rejected, lastResult, recording,
          waiter, beat>>

\* What the runtime of an actor never touches.
others == <<recording, waiter, beat>>

----------------------------------------------------------------------------
\* Messages and mailboxes

\* Action::is_high_priority: true for Awake, Interrupt and Done and for a
\* user action that overrides it the same way ("Urgent"); the other
\* actions ("X", "Tick") keep the default, normal priority.
IsHighPriority(k) == k \in {"Awake", "Interrupt", "Done", "Urgent"}

Msg(k, n, id) == [k |-> k, n |-> n, id |-> id]

\* The runtime loop has exited.
Exited == {"finished", "notified", "done"}

\* The receivers live in the ActorRuntime, which entrypoint(mut self) owns:
\* they are dropped when entrypoint returns.
RuntimeAlive(a) == pc[a] \in {"spawned", "loop", "finished", "notified"}

\* How many messages of a class the mailbox of a has accepted so far.
Accepted(a, q, hi) ==
    Len(q) + Cardinality({i \in DOMAIN handled[a] :
                              IsHighPriority(handled[a][i].k) = hi})

\* The position of a new message among those its class has accepted; known
\* only to a specification that records the dispatched envelopes.
SeqNo(a, q, hi) ==
    IF "handled" \in recording THEN Accepted(a, q, hi) + 1 ELSE 0

\* Address::send_hp_direct: unbounded_send on the high-priority channel,
\* an error when the receiver is gone.
SendHpDirect(a, k, id) ==
    IF RuntimeAlive(a)
        THEN Append(hp[a], Msg(k, SeqNo(a, hp[a], TRUE), id))
        ELSE hp[a]

\* Controller: send a signal to the operator.
SendSignal(a, sig) ==
    IF RuntimeAlive(a) THEN Append(opq[a], sig) ELSE opq[a]

\* StreamExt::next on a mailbox receiver: the oldest envelope and the rest.
RecvLast(q) == <<q[Len(q)], SubSeq(q, 1, Len(q) - 1)>>

Recv(q) == <<Head(q), Tail(q)>>

\* The Context of the runtime owns a clone of the Address, so the mailboxes
\* always have a sender while the runtime lives.
Senders(a) == (IF ext[a] THEN 1 ELSE 0) + 1

----------------------------------------------------------------------------
\* No wait_or_interrrupt call and no HeartBeat task.
NoWaiter == [pc |-> "absent"]
NoBeat == [pc |-> "absent"]

\* System::spawn(root) has returned: the root's runtime task is spawned.
InitRuntime ==
    /\ pc = [a \in Actors |-> IF a = Root THEN "spawned" ELSE "unspawned"]
    /\ hp = [a \in Actors |-> <<>>]
    /\ lp = [a \in Actors |-> <<>>]
    /\ opq = [a \in Actors |-> <<>>]
    /\ msgRxClosed = [a \in Actors |-> FALSE]
    /\ children = [a \in Actors |-> {}]
    /\ stopRequested = [a \in Actors |-> FALSE]
    /\ opState = [a \in Actors |-> "created"]
    /\ sup = [a \in Actors |-> None]
    /\ current = [a \in Actors |-> {}]
    /\ handled = [a \in Actors |-> <<>>]
    /\ ext = [a \in Actors |-> a = Root]
    /\ sent = 0
    /\ rejected = {}
    /\ lastResult = [a \in Actors |-> "none"]

Init ==
    /\ InitRuntime
    /\ recording = {"handled"}
    /\ waiter = NoWaiter
    /\ beat = NoBeat

----------------------------------------------------------------------------
\* spawn and Context::bind_actor

\* spawn(actor, opt_supervisor): builds the channels, the Address, the
\* notifiers and the ActorRuntime, hands entrypoint() to the executor and
\* returns the Address; nothing of entrypoint has run when it returns, and
\* the supervisor's Context, with its Terminator, is not touched.
spawn(c, s) ==
    /\ pc' = [pc EXCEPT ![c] = "spawned"]
    /\ sup' = [sup EXCEPT ![c] = s]
    /\ children' = children

\* Context::bind_actor: spawn(actor, Some(self.address.clone())).
bind_actor(p, c) == spawn(c, p)

\* The children are bound in program order.
BoundBefore(c) == IF c = "C2" THEN {"C1"} ELSE {}

\* A handler of the root, while it runs, binds the next child.
Bind(c) ==
    /\ pc[Root] = "loop"
    /\ current[Root] # {}
    /\ pc[c] = "unspawned"
    /\ \A b \in BoundBefore(c) : pc[b] # "unspawned"
    /\ bind_actor(Root, c)
    /\ UNCHANGED <<hp, lp, opq, msgRxClosed, stopRequested, opState,
                   current, handled, ext, sent,
                   rejected, lastResult, others>>

----------------------------------------------------------------------------
\* ActorRuntime::entrypoint, before the loop

\* Operator::initialize registers the actor with its supervisor: a signal
\* with the actor's id goes to the supervisor's operator, whose runtime
\* loop hands it to its Terminator.
RegisterChild(s, c) ==
    IF s = None THEN opq ELSE [opq EXCEPT ![s] = SendSignal(s, c)]

\* self.operator.initialize(); self.awake_notifier.notify(); then routine().
EntrypointStart(a) ==
    /\ pc[a] = "spawned"
    /\ opState' = [opState EXCEPT ![a] = "initialized"]
    /\ opq' = RegisterChild(sup[a], a)
    /\ hp' = [hp EXCEPT ![a] = SendHpDirect(a, "Awake", a)]
    /\ pc' = [pc EXCEPT ![a] = "loop"]
    /\ UNCHANGED <<lp, msgRxClosed, children, stopRequested, sup,
                   current, handled, ext, sent,
                   rejected, lastResult, others>>

----------------------------------------------------------------------------
\* Terminator

\* let child = signal.into(): a stop signal carries no child id.
SignalInto(sig) == IF sig = "Stop" THEN None ELSE sig

\* A signal with a child's id: the first one, sent when the child's operator
\* is initialized, adds the child, and the one sent when it is finalized
\* removes it.
TrackChild(live, child) ==
    IF child \in live THEN live \ {child} ELSE live \cup {child}

TerminatorChildrenForced(a, child) ==
    IF child = None
        THEN (IF stopRequested[a] THEN {} ELSE children[a])
        ELSE TrackChild(children[a], child)

\* The live children after track_child_or_stop_signal(child).
TerminatorChildren(a, child) ==
    IF child = None THEN children[a] ELSE TrackChild(children[a], child)

\* The stop-requested flag after track_child_or_stop_signal(child).
TerminatorStop(a, child) == stopRequested[a] \/ child = None

\* Entry to Stopping forwards an Interrupt to each live child.
InterruptTargets(a, child) ==
    IF child = None /\ ~stopRequested[a] THEN children[a] ELSE {}

\* TerminationProgress returned by track_child_or_stop_signal(child).
Progress(a, child) ==
    IF TerminatorStop(a, child) /\ TerminatorChildren(a, child) = {}
        THEN "SafeToStop"
        ELSE "ShouldWaitMore"

\* The derived status of the Terminator.
Status(a) ==
    IF ~stopRequested[a] THEN "Active"
    ELSE IF children[a] # {} THEN "Stopping" ELSE "SafeToStop"

----------------------------------------------------------------------------
\* ActorRuntime::routine

LoopNoAwait(a) == pc[a] = "loop"

\* The loop is at select_biased!: every envelope.handle(..).await of the
\* earlier iterations has returned.
LoopIdle(a) == pc[a] = "loop" /\ current[a] = {}

\* What next() of a mailbox stream yields when polled.
StreamNext(a, q) ==
    IF q # <<>> THEN "Some"
    ELSE IF Senders(a) = 0 THEN "None" ELSE "Pending"

OperatorReady(a) == opq[a] # <<>>

HpSelectedUnbiased(a) == StreamNext(a, hp[a]) # "Pending"

\* select_biased! polls the branches in order: the high-priority branch is
\* taken when the operator has nothing ready.
HpSelected(a) == ~OperatorReady(a) /\ StreamNext(a, hp[a]) # "Pending"

LpSelectedUnbiased(a) == StreamNext(a, lp[a]) # "Pending"

\* The normal branch is taken when neither of the first two is ready.
LpSelected(a) ==
    /\ ~OperatorReady(a)
    /\ StreamNext(a, hp[a]) = "Pending"
    /\ StreamNext(a, lp[a]) # "Pending"

MsgRxCloseSkipped(a) == msgRxClosed

\* self.msg_rx.close()
MsgRxClose(a) == [msgRxClosed EXCEPT ![a] = TRUE]

ExitsLoopAlways(progress) == TRUE

\* if progress == TerminationProgress::SafeToStop { .. break; }
ExitsLoop(progress) == progress = "SafeToStop"

\* event = self.operator.next() => { .. }
OperatorBranch(a) ==
    /\ LoopIdle(a)
    /\ OperatorReady(a)
    /\ LET child == SignalInto(Head(opq[a]))
           targets == InterruptTargets(a, child)
       IN  /\ opq' = [opq EXCEPT ![a] = Tail(@)]
           /\ children' = [children EXCEPT ![a] = TerminatorChildren(a, child)]
           /\ stopRequested' =
                  [stopRequested EXCEPT ![a] = TerminatorStop(a, child)]
           /\ hp' = [x \in Actors |->
                        IF x \in targets
                            THEN SendHpDirect(x, "Interrupt", a)
                            ELSE hp[x]]
           /\ IF ExitsLoop(Progress(a, child))
                  THEN /\ msgRxClosed' = MsgRxClose(a)
                       /\ pc' = [pc EXCEPT ![a] = "finished"]
                  ELSE UNCHANGED <<msgRxClosed, pc>>
    /\ UNCHANGED <<lp, opState, sup, current, handled, ext, sent,
                   rejected, lastResult, others>>

\* The handler of Interrupt asks its own actor to stop through the
\* controller; the other handlers leave the runtime's state alone.
HandlerSignals(a, envelope) ==
    IF envelope.k = "Interrupt"
        THEN [opq EXCEPT ![a] = SendSignal(a, "Stop")]
        ELSE opq

\* The record of a dispatch: the envelope and, where recorded, how many
\* normal-priority envelopes were queued when an Interrupt was selected.
Dispatched(a, envelope) ==
    [k |-> envelope.k, n |-> envelope.n, id |-> envelope.id,
     behind |-> IF "behind" \in recording /\ envelope.k = "Interrupt"
                    THEN Len(lp[a]) ELSE 0]

\* envelope.handle(&mut self.actor, &mut self.context): the handler starts.
Handle(a, envelope) ==
    /\ current' = [current EXCEPT ![a] = @ \cup {envelope}]
    /\ handled' = IF "handled" \in recording
                       THEN [handled EXCEPT ![a] = Append(@, Dispatched(a, envelope))]
                       ELSE handled
    /\ opq' = HandlerSignals(a, envelope)

\* hp_envelope = self.hp_msg_rx.next() => { .. }
HpBranch(a) ==
    /\ LoopIdle(a)
    /\ HpSelected(a)
    /\ IF StreamNext(a, hp[a]) = "Some"
           THEN /\ hp' = [hp EXCEPT ![a] = Recv(@)[2]]
                /\ Handle(a, Recv(hp[a])[1])
           ELSE UNCHANGED <<hp, current, handled, opq>>
    /\ UNCHANGED <<pc, lp, msgRxClosed, children, stopRequested, opState,
                   sup, ext, sent,
                   rejected, lastResult, others>>

\* lp_envelope = self.msg_rx.next() => { .. }
LpBranch(a) ==
    /\ LoopIdle(a)
    /\ LpSelected(a)
    /\ IF StreamNext(a, lp[a]) = "Some"
           THEN /\ lp' = [lp EXCEPT ![a] = Recv(@)[2]]
                /\ Handle(a, Recv(lp[a])[1])
           ELSE UNCHANGED <<lp, current, handled, opq>>
    /\ UNCHANGED <<pc, hp, msgRxClosed, children, stopRequested, opState,
                   sup, ext, sent,
                   rejected, lastResult, others>>

\* The result of a handler, where the specification records it.
Logged(a, res) ==
    IF "results" \in recording
        THEN [lastResult EXCEPT ![a] = res]
        ELSE lastResult

HandlerReturnBreaks(a) ==
    /\ \E envelope \in current[a], res \in {"Ok", "Err"} :
           /\ current' = [current EXCEPT ![a] = @ \ {envelope}]
           /\ lastResult' = Logged(a, res)
           /\ pc' = IF res = "Err" THEN [pc EXCEPT ![a] = "finished"] ELSE pc
    /\ UNCHANGED <<hp, lp, opq, msgRxClosed, children, stopRequested,
                   opState, sup, handled, ext, sent,
                   rejected, others>>

\* let handle_res = envelope.handle(..).await; if let Err(err) = handle_res
\* { log::error!(..) }: the awaited handler returns Ok or Err, the error is
\* logged and the loop goes on to its next iteration.
HandlerReturn(a) ==
    /\ \E envelope \in current[a], res \in {"Ok", "Err"} :
           /\ current' = [current EXCEPT ![a] = @ \ {envelope}]
           /\ lastResult' = Logged(a, res)
           /\ pc' = pc
    /\ UNCHANGED <<hp, lp, opq, msgRxClosed, children, stopRequested,
                   opState, sup, handled, ext, sent,
                   rejected, others>>

----------------------------------------------------------------------------
\* ActorRuntime::entrypoint, after the loop

NotifyDoneDelivered(a) ==
    /\ sup[a] # None
    /\ RuntimeAlive(sup[a])
    /\ hp' = [hp EXCEPT ![sup[a]] = SendHpDirect(sup[a], "Done", a)]
    /\ UNCHANGED <<lp, opq, msgRxClosed, children, stopRequested, opState,
                   sup, current, handled, ext, sent,
                   rejected, lastResult, others>>

\* if let Some(done_notifier) = .. { if let Err(err) = done_notifier
\* .notify() { log::error!(..) } }: Done{id} to the supervisor's
\* high-priority mailbox; a failed send is logged, and a standalone actor
\* has no done notifier.
NotifyDone(a) ==
    /\ hp' = IF sup[a] # None
                 THEN [hp EXCEPT ![sup[a]] = SendHpDirect(sup[a], "Done", a)]
                 ELSE hp
    /\ UNCHANGED <<lp, opq, msgRxClosed, children, stopRequested, opState,
                   sup, current, handled, ext, sent,
                   rejected, lastResult, others>>

\* self.operator.finalize(): the operator deregisters, which reports the
\* child done to the supervisor's operator, and releases its controllers.
OperatorFinalize(a) ==
    /\ opState' = [opState EXCEPT ![a] = "finalized"]
    /\ opq' = IF sup[a] # None
                  THEN [opq EXCEPT ![sup[a]] = SendSignal(sup[a], a)]
                  ELSE opq
    /\ UNCHANGED <<hp, lp, msgRxClosed, children, stopRequested, sup,
                   current, handled, ext, sent,
                   rejected, lastResult, others>>

EntrypointTailNotifyTwice(a) ==
    \/ /\ pc[a] = "finished"
       /\ NotifyDone(a)
       /\ pc' = [pc EXCEPT ![a] = "notifying"]
    \/ /\ pc[a] = "notifying"
       /\ NotifyDone(a)
       /\ pc' = [pc EXCEPT ![a] = "notified"]
    \/ /\ pc[a] = "notified"
       /\ OperatorFinalize(a)
       /\ pc' = [pc EXCEPT ![a] = "done"]

EntrypointTailFinalizeFirst(a) ==
    \/ /\ pc[a] = "finished"
       /\ OperatorFinalize(a)
       /\ pc' = [pc EXCEPT ![a] = "notified"]
    \/ /\ pc[a] = "notified"
       /\ NotifyDone(a)
       /\ pc' = [pc EXCEPT ![a] = "done"]

\* After routine() returns: the done notification, then finalize; the
\* runtime is dropped when entrypoint returns.
EntrypointTail(a) ==
    \/ /\ pc[a] = "finished"
       /\ NotifyDone(a)
       /\ pc' = [pc EXCEPT ![a] = "notified"]
    \/ /\ pc[a] = "notified"
       /\ OperatorFinalize(a)
       /\ pc' = [pc EXCEPT ![a] = "done"]

----------------------------------------------------------------------------
\* The holders of the root's Address

\* The normal mailbox of a takes a message: its receiver exists and
\* msg_rx.close() has not been called.
MsgRxOpen(a) == RuntimeAlive(a) /\ ~msgRxClosed[a]

\* A send that returned an error to its caller.
Refused(ok, kind) == IF ok THEN rejected ELSE rejected \cup {kind}

\* Address::act(X): the send waits while the mailbox is full, the message
\* is accepted while msg_rx is open, and the caller gets an error otherwise.
EnvAct ==
    /\ ext[Root] /\ sent < MaxSends
    /\ MsgRxOpen(Root) => Len(lp[Root]) < MESSAGES_CHANNEL_DEPTH
    /\ lp' = IF MsgRxOpen(Root)
                 THEN [lp EXCEPT ![Root] =
                          Append(@, Msg("X", SeqNo(Root, @, FALSE), "env"))]
                 ELSE lp
    /\ rejected' = Refused(MsgRxOpen(Root), "act")
    /\ sent' = sent + 1
    /\ UNCHANGED <<pc, hp, opq, msgRxClosed, children, stopRequested,
                   opState, sup, current, handled, ext,
                   lastResult, others>>

\* Address::interrupt(): Interrupt through the high-priority path.
EnvInterrupt ==
    /\ ext[Root] /\ sent < MaxSends
    /\ hp' = [hp EXCEPT ![Root] = SendHpDirect(Root, "Interrupt", "env")]
    /\ rejected' = Refused(RuntimeAlive(Root), "hp")
    /\ sent' = sent + 1
    /\ UNCHANGED <<pc, lp, opq, msgRxClosed, children, stopRequested,
                   opState, sup, current, handled, ext,
                   lastResult, others>>

\* A stop signal sent through the Address's controller.
EnvStop ==
    /\ ext[Root] /\ sent < MaxSends
    /\ opq' = [opq EXCEPT ![Root] = SendSignal(Root, "Stop")]
    /\ rejected' = Refused(RuntimeAlive(Root), "stop")
    /\ sent' = sent + 1
    /\ UNCHANGED <<pc, hp, lp, msgRxClosed, children, stopRequested,
                   opState, sup, current, handled, ext,
                   lastResult, others>>

\* The last Address held outside the runtime is dropped.
DropAddress ==
    /\ ext[Root]
    /\ ext' = [ext EXCEPT ![Root] = FALSE]
    /\ UNCHANGED <<pc, hp, lp, opq, msgRxClosed, children, stopRequested,
                   opState, sup, current, handled, sent,
                   rejected, lastResult, others>>

----------------------------------------------------------------------------
Next ==
    \/ \E a \in Actors : EntrypointStart(a)
    \/ \E a \in Actors : OperatorBranch(a)
    \/ \E a \in Actors : HpBranch(a)
    \/ \E a \in Actors : LpBranch(a)
    \/ \E a \in Actors : HandlerReturn(a)
    \/ \E a \in Actors : EntrypointTail(a)
    \/ \E c \in Children : Bind(c)
    \/ EnvAct
    \/ EnvInterrupt
    \/ EnvStop
    \/ DropAddress

Spec == Init /\ [][Next]_vars

TypeOK ==
    /\ pc \in [Actors -> {"unspawned", "spawned", "loop"} \cup Exited]
    /\ \A a \in Actors : Cardinality(children[a]) <= Cardinality(Children)
    /\ sent \in 0..MaxSends

----------------------------------------------------------------------------
\* Properties

HandledKind(a, k) == \E i \in DOMAIN handled[a] : handled[a][i].k = k

HandledDone(a, c) ==
    \E i \in DOMAIN handled[a] :
        handled[a][i].k = "Done" /\ handled[a][i].id = c

\* How many Done{id = c} the mailbox of s has accepted.
DoneCount(s, c) ==
    Cardinality({i \in DOMAIN hp[s] : hp[s][i].k = "Done" /\ hp[s][i].id = c})
    + Cardinality({i \in DOMAIN handled[s] :
                       handled[s][i].k = "Done" /\ handled[s][i].id = c})

\* C1: the first envelope dispatched to the handlers of an actor is Awake.
AwakeFirst ==
    \A a \in Actors : handled[a] # <<>> => handled[a][1].k = "Awake"

\* C2: on every scheduling decision an envelope is dispatched only when no
\* operator event is ready, and a normal-priority envelope only when, in
\* addition, no high-priority envelope is ready.
StrictPriority ==
    [][\A a \in Actors :
           Len(handled'[a]) > Len(handled[a]) =>
               /\ opq[a] = <<>>
               /\ (~IsHighPriority(handled'[a][Len(handled'[a])].k)
                      => hp[a] = <<>>)]_vars

StrictPriorityWitness ==
    /\ lp[Root] # <<>>
    /\ \E m \in current[Root] : m.k = "Interrupt"
    /\ HandledKind(Root, "X")

\* C3: a supervisor that has left its runtime loop has no bound child that
\* is still running: every child it bound has terminated and reported done.
Quiescence ==
    \A c \in Children :
        (pc[c] # "unspawned" /\ pc[Root] \in Exited) => pc[c] = "done"

\* C4: a supervisor that has left its runtime loop has dispatched Done for
\* every child it bound, and no Done is left in its high-priority mailbox.
DoneHandledBeforeExit ==
    pc[Root] \in Exited =>
        /\ \A c \in Children : pc[c] # "unspawned" => HandledDone(Root, c)
        /\ \A i \in DOMAIN hp[Root] : hp[Root][i].k # "Done"

DoneBeforeFinalize ==
    \A c \in Children :
        /\ (opState[c] = "finalized" /\ sup[c] # None)
               => DoneCount(sup[c], c) >= 1
        /\ \A i \in DOMAIN opq[Root] :
               (opq[Root][i] = c /\ c \in children[Root])
                   => DoneCount(Root, c) >= 1

DoneBeforeFinalizeWitness ==
    /\ opState["C1"] = "finalized"
    /\ sup["C1"] = Root
    /\ pc[Root] = "loop"

\* C7: within one priority class the envelopes are dispatched in the order
\* in which the mailbox accepted them.
FifoPerClass ==
    \A a \in Actors :
        \A i, j \in DOMAIN handled[a] :
            (/\ i < j
             /\ IsHighPriority(handled[a][i].k) = IsHighPriority(handled[a][j].k))
                => handled[a][i].n < handled[a][j].n

FifoPerClassWitness ==
    /\ Cardinality({i \in DOMAIN handled[Root] : handled[Root][i].k = "X"}) >= 2
    /\ Cardinality({i \in DOMAIN handled[Root] :
                        IsHighPriority(handled[Root][i].k)}) >= 2

\* C8: at most one handler invocation of an actor is in progress, and an
\* envelope is dispatched or an operator event handed to the terminator
\* only when no handler of that actor is in progress.
MutualExclusion ==
    /\ [](\A a \in Actors : Cardinality(current[a]) <= 1)
    /\ [][\A a \in Actors :
              (Len(handled'[a]) > Len(handled[a]) \/ Len(opq'[a]) < Len(opq[a]))
                  => current[a] = {}]_vars

MutualExclusionWitness ==
    /\ current[Root] # {}
    /\ hp[Root] # <<>>
    /\ lp[Root] # <<>>
    /\ opq[Root] # <<>>

StatusOf(stop, live) ==
    IF ~stop THEN "Active" ELSE IF live # {} THEN "Stopping" ELSE "SafeToStop"

\* C9: the stop-requested flag is set once and never reset, the loop once
\* exited is never re-entered, and a stop signal processed after the first
\* changes neither the live children nor the status and interrupts nobody.
IdempotentStop ==
    [][\A a \in Actors :
           /\ stopRequested[a] => stopRequested'[a]
           /\ pc[a] \in Exited => pc'[a] \in Exited
           /\ (/\ stopRequested[a]
               /\ opq[a] # <<>>
               /\ Head(opq[a]) = "Stop"
               /\ Len(opq'[a]) < Len(opq[a]))
                  => /\ children'[a] = children[a]
                     /\ StatusOf(stopRequested'[a], children'[a])
                            = StatusOf(stopRequested[a], children[a])
                     /\ \A c \in children[a] : hp'[c] = hp[c]]_vars

IdempotentStopWitness ==
    /\ pc[Root] = "loop"
    /\ Status(Root) = "Stopping"
    /\ opq[Root] = <<>>
    /\ Cardinality({i \in DOMAIN handled[Root] :
                        handled[Root][i].k = "Interrupt"}) >= 2

\* C10: the loop is left only in a step that processes an operator event on
\* which the terminator reports SafeToStop; an actor with live children and
\* no stop request is still in its loop, whatever Addresses remain.
AddressLongevity ==
    /\ [][\A a \in Actors :
              (pc[a] = "loop" /\ pc'[a] # "loop")
                  => /\ opq[a] # <<>>
                     /\ opq'[a] = Tail(opq[a])
                     /\ StatusOf(stopRequested'[a], children'[a]) = "SafeToStop"]_vars
    /\ [](\A a \in Actors :
              (children[a] # {} /\ ~stopRequested[a]) => pc[a] = "loop")

AddressLongevityWitness ==
    /\ ~ext[Root]
    /\ children[Root] # {}
    /\ ~stopRequested[Root]
    /\ pc[Root] = "loop"
    /\ current[Root] = {}
    /\ hp[Root] = <<>> /\ lp[Root] = <<>> /\ opq[Root] = <<>>

\* C15 as stated: once the loop of an actor has exited, neither of its
\* mailboxes accepts a message.
MailboxClosedAtExit ==
    [][\A a \in Actors :
           pc[a] \in Exited => (hp'[a] = hp[a] /\ lp'[a] = lp[a])]_vars

\* C15: once the loop of an actor has exited its normal mailbox accepts
\* nothing, once its runtime task has ended its high-priority mailbox and
\* its operator accept nothing, and a send made to the root after its task
\* has ended returns an error.
MailboxClosedAfterExit ==
    [][/\ \A a \in Actors :
              /\ pc[a] \in Exited => lp'[a] = lp[a]
              /\ pc[a] = "done" => (hp'[a] = hp[a] /\ opq'[a] = opq[a])
       /\ (sent' > sent /\ pc[Root] = "done") => rejected' # {}]_vars

MailboxClosedAfterExitWitness ==
    /\ pc[Root] = "done"
    /\ "act" \in rejected
    /\ "hp" \in rejected

\* C16: an actor whose loop has exited has dispatched Awake.
AwakeBeforeExit ==
    \A a \in Actors : pc[a] \in Exited => HandledKind(a, "Awake")

\* C17: a stop signal that the root's loop processes while a child it has
\* bound is still running finds that child among the live children.
ChildRegistered ==
    [][\A c \in Children :
           (/\ pc[c] \notin {"unspawned", "done"}
            /\ opq[Root] # <<>>
            /\ Head(opq[Root]) = "Stop"
            /\ opq'[Root] = Tail(opq[Root]))
               => c \in children[Root]]_vars

----------------------------------------------------------------------------
\* Shutdown under load: senders that keep both mailboxes of the root filled

\* How many envelopes the flooding senders keep queued in a mailbox.
FloodDepth == 2

InitLive ==
    /\ InitRuntime
    /\ recording = {}
    /\ waiter = NoWaiter
    /\ beat = NoBeat

\* Address::act(X), again and again.
FloodAct ==
    /\ ext[Root]
    /\ MsgRxOpen(Root)
    /\ Len(lp[Root]) < FloodDepth
    /\ lp' = [lp EXCEPT ![Root] =
                 Append(@, Msg("X", SeqNo(Root, @, FALSE), "env"))]
    /\ UNCHANGED <<pc, hp, opq, msgRxClosed, children, stopRequested,
                   opState, sup, current, handled, ext, sent,
                   rejected, lastResult, others>>

\* Address::act(Urgent), a high-priority action, again and again.
FloodHp ==
    /\ ext[Root]
    /\ RuntimeAlive(Root)
    /\ Len(hp[Root]) < FloodDepth
    /\ hp' = [hp EXCEPT ![Root] = SendHpDirect(Root, "Urgent", "env")]
    /\ UNCHANGED <<pc, lp, opq, msgRxClosed, children, stopRequested,
                   opState, sup, current, handled, ext, sent,
                   rejected, lastResult, others>>

\* A stop signal sent through the Address's controller.
FloodStop ==
    /\ ext[Root]
    /\ RuntimeAlive(Root)
    /\ Len(opq[Root]) < FloodDepth
    /\ opq' = [opq EXCEPT ![Root] = SendSignal(Root, "Stop")]
    /\ UNCHANGED <<pc, hp, lp, msgRxClosed, children, stopRequested,
                   opState, sup, current, handled, ext, sent,
                   rejected, lastResult, others>>

LiveNext ==
    \/ \E a \in Actors : EntrypointStart(a)
    \/ \E a \in Actors : OperatorBranch(a)
    \/ \E a \in Actors : HpBranch(a)
    \/ \E a \in Actors : LpBranch(a)
    \/ \E a \in Actors : HandlerReturn(a)
    \/ \E a \in Actors : EntrypointTail(a)
    \/ FloodAct
    \/ FloodHp
    \/ FloodStop

\* A step of the runtime task of a: tokio::spawn(runtime.entrypoint()).
RuntimeStep(a) ==
    \/ EntrypointStart(a)
    \/ OperatorBranch(a)
    \/ HpBranch(a)
    \/ LpBranch(a)
    \/ EntrypointTail(a)

\* The executor polls the runtime task whenever it can make a step, and
\* every handler invocation returns.
LiveSpec ==
    /\ InitLive
    /\ [][LiveNext]_vars
    /\ WF_vars(RuntimeStep(Root))
    /\ WF_vars(HandlerReturn(Root))

StopPending(a) == \E i \in DOMAIN opq[a] : opq[a][i] = "Stop"

\* C11: once a stop signal is in the operator's queue of an actor without
\* live children, the actor leaves its runtime loop, however full the
\* senders keep its normal and high-priority mailboxes.
ShutdownLiveness ==
    (RuntimeAlive(Root) /\ StopPending(Root) /\ children[Root] = {})
        ~> (pc[Root] \in Exited)

ShutdownLivenessWitness ==
    /\ pc[Root] = "finished"
    /\ Len(hp[Root]) = FloodDepth
    /\ Len(lp[Root]) = FloodDepth

----------------------------------------------------------------------------
\* System::wait_or_interrrupt(address) on the root's Address

\* Number of keyboard interrupts delivered to the process.
MaxSignals == 3

\* let mut signals = ..; let mut joiner = ..; let mut first_attempt = true;
InitWait ==
    /\ InitRuntime
    /\ recording = {"handled"}
    /\ waiter = [pc |-> "select", first_attempt |-> TRUE, signals |-> 0,
                 consumed |-> 0, interrupts |-> 0, result |-> "none"]
    /\ beat = NoBeat

\* A keyboard interrupt becomes an item of the CtrlC stream.
CtrlC ==
    /\ waiter.pc # "absent"
    /\ waiter.signals + waiter.consumed < MaxSignals
    /\ waiter' = [waiter EXCEPT !.signals = @ + 1]
    /\ UNCHANGED <<pc, hp, lp, opq, msgRxClosed, children, stopRequested,
                   opState, sup, current, handled, ext, sent, rejected,
                   lastResult, recording, beat>>

\* join_addr.join(): resolves once the actor's loop has exited, which the
\* closing of its mailbox shows.
Joined(a) == msgRxClosed[a]

SignalArmForgetful(w, alive) ==
    IF w.first_attempt
        THEN [w EXCEPT !.interrupts = @ + 1,
                       !.pc = IF alive THEN "select" ELSE "returned",
                       !.result = IF alive THEN "none" ELSE "Err"]
        ELSE [w EXCEPT !.pc = "returned", !.result = "Ok"]

\* if first_attempt { first_attempt = false; address.interrupt()?; }
\* else { break; }: the locals after the arm, alive telling whether
\* interrupt() succeeded; its error is returned by the ? operator.
SignalArm(w, alive) ==
    IF w.first_attempt
        THEN [w EXCEPT !.first_attempt = FALSE,
                       !.interrupts = @ + 1,
                       !.pc = IF alive THEN "select" ELSE "returned",
                       !.result = IF alive THEN "none" ELSE "Err"]
        ELSE [w EXCEPT !.pc = "returned", !.result = "Ok"]

\* _interrupt = signals.select_next_some() => { .. }
WaitSignalBranch ==
    /\ waiter.pc = "select"
    /\ waiter.signals > 0
    /\ hp' = IF waiter.first_attempt
                 THEN [hp EXCEPT ![Root] = SendHpDirect(Root, "Interrupt", "system")]
                 ELSE hp
    /\ waiter' = SignalArm([waiter EXCEPT !.signals = @ - 1, !.consumed = @ + 1],
                           RuntimeAlive(Root))
    /\ UNCHANGED <<pc, lp, opq, msgRxClosed, children, stopRequested,
                   opState, sup, current, handled, ext, sent, rejected,
                   lastResult, recording, beat>>

\* _done = joiner => { break; }
WaitJoinBranch ==
    /\ waiter.pc = "select"
    /\ Joined(Root)
    /\ waiter' = [waiter EXCEPT !.pc = "returned", !.result = "Ok"]
    /\ UNCHANGED <<pc, hp, lp, opq, msgRxClosed, children, stopRequested,
                   opState, sup, current, handled, ext, sent, rejected,
                   lastResult, recording, beat>>

\* The root's runtime, a stop it may receive from elsewhere, the keyboard
\* and the select! of wait_or_interrrupt, which takes any ready branch.
WaitNext ==
    \/ \E a \in Actors : EntrypointStart(a)
    \/ \E a \in Actors : OperatorBranch(a)
    \/ \E a \in Actors : HpBranch(a)
    \/ \E a \in Actors : HandlerReturn(a)
    \/ \E a \in Actors : EntrypointTail(a)
    \/ EnvStop
    \/ CtrlC
    \/ WaitSignalBranch
    \/ WaitJoinBranch

WaitSpec == InitWait /\ [][WaitNext]_vars

\* C12: wait_or_interrrupt sends Interrupt to the root exactly once, when
\* it takes the first keyboard interrupt; it returns when it takes the
\* second, and with fewer than two taken it has returned only if the
\* root's join has completed.
CtrlCProtocol ==
    /\ waiter.interrupts = (IF waiter.consumed = 0 THEN 0 ELSE 1)
    /\ waiter.consumed <= 2
    /\ waiter.consumed = 2 => waiter.pc = "returned"
    /\ (waiter.pc = "returned" /\ waiter.consumed < 2) => Joined(Root)

CtrlCProtocolWitness ==
    /\ waiter.pc = "returned"
    /\ waiter.consumed = 2
    /\ waiter.interrupts = 1
    /\ pc[Root] = "loop"
    /\ ~Joined(Root)

----------------------------------------------------------------------------
\* HeartBeat::routine, a lite task whose recipient is the root

\* let mut ticks = interval(..); let done = signal.just_done().fuse();
InitBeat ==
    /\ InitRuntime
    /\ recording = {}
    /\ waiter = NoWaiter
    /\ beat = [pc |-> "select", shutdown |-> FALSE, tick |-> FALSE,
               result |-> "none"]

\* The ShutdownReceiver of the task signals done.
BeatShutdown ==
    /\ beat.pc # "absent"
    /\ ~beat.shutdown
    /\ beat' = [beat EXCEPT !.shutdown = TRUE]
    /\ UNCHANGED <<pc, hp, lp, opq, msgRxClosed, children, stopRequested,
                   opState, sup, current, handled, ext, sent, rejected,
                   lastResult, recording, waiter>>

\* interval(self.duration): the next tick is due.
IntervalTick ==
    /\ beat.pc \in {"select", "sending"}
    /\ ~beat.tick
    /\ beat' = [beat EXCEPT !.tick = TRUE]
    /\ UNCHANGED <<pc, hp, lp, opq, msgRxClosed, children, stopRequested,
                   opState, sup, current, handled, ext, sent, rejected,
                   lastResult, recording, waiter>>

\* _ = done => { break; }
BeatDoneBranch ==
    /\ beat.pc = "select"
    /\ beat.shutdown
    /\ beat' = [beat EXCEPT !.pc = "returned", !.result = "Ok"]
    /\ UNCHANGED <<pc, hp, lp, opq, msgRxClosed, children, stopRequested,
                   opState, sup, current, handled, ext, sent, rejected,
                   lastResult, recording, waiter>>

\* The normal mailbox of a has no room: the send of act(..).await waits.
MailboxFull(a) == Len(lp[a]) >= MESSAGES_CHANNEL_DEPTH

\* recipient.act(tick).await?: where the routine is after the send has
\* been polled, "sending" while it waits for room in the mailbox.
ActOutcome(a) ==
    IF ~MsgRxOpen(a) THEN "returned"
    ELSE IF MailboxFull(a) THEN "sending" ELSE "select"

\* The recipient's mailbox after recipient.act(tick) has been polled.
ActTick(a) ==
    IF ActOutcome(a) = "select"
        THEN [lp EXCEPT ![a] = Append(@, Msg("Tick", SeqNo(a, @, FALSE), "beat"))]
        ELSE lp

\* tick = ticks.select_next_some() => { recipient.act(tick).await?; }
\* select! takes any of its ready arms.
BeatTickBranch ==
    /\ beat.pc = "select"
    /\ beat.tick
    /\ lp' = ActTick(Root)
    /\ beat' = [beat EXCEPT !.tick = FALSE,
                            !.pc = ActOutcome(Root),
                            !.result = IF ActOutcome(Root) = "returned"
                                           THEN "Err" ELSE "none"]
    /\ UNCHANGED <<pc, hp, opq, msgRxClosed, children, stopRequested,
                   opState, sup, current, handled, ext, sent, rejected,
                   lastResult, recording, waiter>>

\* The waiting send of recipient.act(tick).await? completes: the mailbox
\* has room again, or its receiver has closed.
BeatSend ==
    /\ beat.pc = "sending"
    /\ ActOutcome(Root) # "sending"
    /\ lp' = ActTick(Root)
    /\ beat' = [beat EXCEPT !.pc = ActOutcome(Root),
                            !.result = IF ActOutcome(Root) = "returned"
                                           THEN "Err" ELSE "none"]
    /\ UNCHANGED <<pc, hp, opq, msgRxClosed, children, stopRequested,
                   opState, sup, current, handled, ext, sent, rejected,
                   lastResult, recording, waiter>>

BeatNext ==
    \/ \E a \in Actors : EntrypointStart(a)
    \/ \E a \in Actors : OperatorBranch(a)
    \/ \E a \in Actors : HpBranch(a)
    \/ \E a \in Actors : LpBranch(a)
    \/ \E a \in Actors : HandlerReturn(a)
    \/ \E a \in Actors : EntrypointTail(a)
    \/ EnvStop
    \/ BeatShutdown
    \/ IntervalTick
    \/ BeatDoneBranch
    \/ BeatTickBranch
    \/ BeatSend

BeatSpec == InitBeat /\ [][BeatNext]_vars

\* C13: once the shutdown receiver of the HeartBeat task has signalled
\* done, no further Tick enters the recipient's mailbox.
NoTickAfterShutdown ==
    [][(beat.pc # "absent" /\ beat.shutdown)
           => Len(lp'[Root]) <= Len(lp[Root])]_vars

----------------------------------------------------------------------------
\* Faults: handlers that return errors, and a supervisor whose task dies

InitFault ==
    /\ InitRuntime
    /\ recording = {"handled", "results"}
    /\ waiter = NoWaiter
    /\ beat = NoBeat

\* A handler of the root panics: the executor drops the runtime task, and
\* with it the ActorRuntime and its receivers, where it stands.
SupervisorDrop ==
    /\ pc[Root] = "loop"
    /\ current[Root] # {}
    /\ pc' = [pc EXCEPT ![Root] = "aborted"]
    /\ current' = [current EXCEPT ![Root] = {}]
    /\ lastResult' = Logged(Root, "Panic")
    /\ UNCHANGED <<hp, lp, opq, msgRxClosed, children, stopRequested,
                   opState, sup, handled, ext, sent, rejected, others>>

\* The root binds one child.
FaultNext ==
    \/ \E a \in Actors : EntrypointStart(a)
    \/ \E a \in Actors : OperatorBranch(a)
    \/ \E a \in Actors : HpBranch(a)
    \/ \E a \in Actors : LpBranch(a)
    \/ \E a \in Actors : HandlerReturn(a)
    \/ \E a \in Actors : EntrypointTail(a)
    \/ Bind("C1")
    \/ EnvAct
    \/ EnvInterrupt
    \/ EnvStop
    \/ DropAddress
    \/ SupervisorDrop

FaultSpec == InitFault /\ [][FaultNext]_vars

\* The envelope the loop dispatches next: the oldest high-priority one,
\* or the oldest normal one when there is none.
NextPending(a) == IF hp[a] # <<>> THEN Head(hp[a]) ELSE Head(lp[a])

\* C14: a handler that returns an error changes nothing of the runtime:
\* the loop is not left, the terminator and the mailboxes are as they were,
\* and the next dispatch takes the pending envelope the priorities select.
HandlerErrorsLocal ==
    /\ [][\A a \in Actors :
              (current[a] # {} /\ current'[a] = {} /\ lastResult'[a] = "Err")
                  => /\ pc'[a] = pc[a]
                     /\ children'[a] = children[a]
                     /\ stopRequested'[a] = stopRequested[a]
                     /\ msgRxClosed'[a] = msgRxClosed[a]
                     /\ hp'[a] = hp[a] /\ lp'[a] = lp[a] /\ opq'[a] = opq[a]]_vars
    /\ [][\A a \in Actors :
              (lastResult[a] = "Err" /\ Len(handled'[a]) > Len(handled[a]))
                  => /\ opq[a] = <<>>
                     /\ handled'[a][Len(handled'[a])]
                            = Dispatched(a, NextPending(a))]_vars

HandlerErrorsLocalWitness ==
    /\ lastResult[Root] = "Err"
    /\ current[Root] # {}
    /\ Len(handled[Root]) >= 2
    /\ children[Root] # {}

\* C18: an actor whose loop has exited can always go on to its done
\* notification and to finalize, with or without a supervisor able to take
\* the Done, and its task ends with the operator finalized.
DoneNeverBlocks ==
    \A a \in Actors :
        /\ pc[a] \in {"finished", "notified"} => ENABLED EntrypointTail(a)
        /\ pc[a] = "done" => opState[a] = "finalized"

DoneNeverBlocksWitness ==
    /\ pc[Root] = "aborted"
    /\ sup["C1"] = Root
    /\ pc["C1"] = "done"
    /\ opState["C1"] = "finalized"
    /\ DoneCount(Root, "C1") = 0

----------------------------------------------------------------------------
\* Interrupt under load: act(X) and interrupt() race on a childless root

InitLoad ==
    /\ InitRuntime
    /\ recording = {"handled", "behind"}
    /\ waiter = NoWaiter
    /\ beat = NoBeat

LoadNext ==
    \/ \E a \in Actors : EntrypointStart(a)
    \/ \E a \in Actors : OperatorBranch(a)
    \/ \E a \in Actors : HpBranch(a)
    \/ \E a \in Actors : LpBranch(a)
    \/ \E a \in Actors : HandlerReturn(a)
    \/ \E a \in Actors : EntrypointTail(a)
    \/ EnvAct
    \/ EnvInterrupt

\* The executor polls the runtime task whenever it can make a step, and
\* every handler invocation returns.
LoadSpec ==
    /\ InitLoad
    /\ [][LoadNext]_vars
    /\ WF_vars(RuntimeStep(Root))
    /\ WF_vars(HandlerReturn(Root))

\* The X dispatched among the first n dispatches of a.
HandledX(a, n) == {i \in DOMAIN handled[a] : i <= n /\ handled[a][i].k = "X"}

\* C19 as stated: when the actor has exited, the X it has handled are all
\* those that had been accepted when the loop selected the Interrupt: the
\* ones dispatched before it and the ones queued behind it.
LoadHandlesQueued ==
    pc[Root] \in Exited =>
        \A j \in DOMAIN handled[Root] :
            handled[Root][j].k = "Interrupt" =>
                Cardinality(HandledX(Root, Len(handled[Root])))
                    = Cardinality(HandledX(Root, j)) + handled[Root][j].behind

\* C19: an actor without children that accepts an Interrupt leaves its
\* loop; no X is dispatched once the loop has selected the Interrupt, so
\* the X handled are those dispatched before it; and nothing of either
\* priority is dispatched after the loop has exited.
LoadDropsQueued ==
    /\ [](\A i, j \in DOMAIN handled[Root] :
              (handled[Root][j].k = "Interrupt" /\ j < i)
                  => handled[Root][i].k # "X")
    /\ [][\A a \in Actors :
              pc[a] \in Exited => handled'[a] = handled[a]]_vars
    /\ ((\E i \in DOMAIN hp[Root] : hp[Root][i].k = "Interrupt")
            ~> (pc[Root] \in Exited))

LoadDropsQueuedWitness ==
    /\ pc[Root] = "done"
    /\ HandledKind(Root, "X")
    /\ HandledKind(Root, "Interrupt")
    /\ lp[Root] # <<>>
    /\ \E j \in DOMAIN handled[Root] : handled[Root][j].behind > 0

====
